---- MODULE Spec2Model ----
(***************************************************************************)
(* The real-time WebSocket connection/subscription manager of FinanceGPT   *)
(* (src/backend/api/websocket.py) together with its one caller, the        *)
(* /ws/{client_id} endpoint (src/backend/main.py).                         *)
(*                                                                         *)
(* Every coroutine is cut at its suspension points (the awaits that reach  *)
(* the event loop: accept, sleep, send_text, receive_text).  One action    *)
(* runs one coroutine from the suspension point it is parked at to the     *)
(* next one; `await self.disconnect(...)` holds no await and never parks.  *)
(***************************************************************************)
EXTENDS Integers, Sequences, FiniteSets, TLC

\* ---------------------------------------------------------------- bounds
NumClients == 2
NumChannels == 2
NumTopics == 2
MaxMsgs == 2
MaxOffline == 102
MaxCalls == 3
MaxInbound == 1
MaxPasses == 1
MaxCleanups == 2
MaxSetup == 1
MaxFaults == 1
MaxFeedSubs == 2

\* ------------------------------------------------------ program constants
QueueCap == 100

Clients == 1..NumClients
Channels == 1..NumChannels
Topics == 1..NumTopics
None == 0

VARIABLES
    active_connections,  \* WebSocketManager.active_connections: client_id -> websocket of its Connection
    conn,                \* the ConnectionManager objects, keyed by the websocket each wraps
    subscriptions,       \* WebSocketManager.subscriptions: topic -> set of client ids
    message_queue,       \* WebSocketManager.message_queue: client_id -> list of messages
    stats,               \* WebSocketManager.stats
    bgtasks,             \* _health_check_task, _cleanup_task, the loops created, and the sleep
                         \* _cleanup_loop is in
    client_state,        \* websocket.client_state of every channel
    peer_gone,           \* the peer of the channel has vanished: send_text/receive_text raise
    wire,                \* per channel: the welcome and payload messages send_text transmitted
    lastTx,              \* the transmissions of the last step
    nextMsg,             \* the next fresh message
    ep,                  \* per channel: the frame of its websocket_endpoint coroutine
    app,                 \* the frame of the application task calling the manager
    health,              \* the frame of _health_check_loop
    budget               \* the application calls, inbound messages, health-check and clean-up
                         \* passes and failed health-check passes so far

vars == <<active_connections, conn, subscriptions, message_queue, stats, bgtasks,
          client_state, peer_gone, wire, lastTx, nextMsg, ep, app, health, budget>>

\* ------------------------------------------------------------ dictionaries
\* d[k] = v
Put(d, k, v) == [x \in (DOMAIN d) \cup {k} |-> IF x = k THEN v ELSE d[x]]
\* del d[k]
Del(d, k) == [x \in (DOMAIN d) \ {k} |-> d[x]]
EmptyDict == [x \in {} |-> None]

\* --------------------------------------------------------- manager state
\* The manager's state as one value, so that the code of one coroutine segment is a
\* function from state to state. `ws` is what the transport reports and is only read.
G == [active_connections |-> active_connections, conn |-> conn,
      subscriptions |-> subscriptions, message_queue |-> message_queue,
      stats |-> stats, wire |-> wire, tx |-> <<>>,
      client_state |-> client_state, peer_gone |-> peer_gone]

SetG(g) ==
    /\ active_connections' = g.active_connections
    /\ conn' = g.conn
    /\ subscriptions' = g.subscriptions
    /\ message_queue' = g.message_queue
    /\ stats' = g.stats
    /\ wire' = g.wire
    /\ lastTx' = g.tx

\* ConnectionManager.__init__
ConnectionManager(c) == [client_id |-> c, subscriptions |-> {}, is_active |-> TRUE]

\* The kinds of message the wire history keeps: the welcome and the payload messages
WireKinds == {"connection_established", "queued", "personal", "broadcast"}

\* ConnectionManager.send_personal_message gets as far as `await websocket.send_text`
TransportReached(g, h) == g.conn[h].is_active /\ g.client_state[h] = "CONNECTED"

\* ConnectionManager.send_personal_message returns True
SendSucceeds(g, h) == TransportReached(g, h) /\ ~g.peer_gone[h]

\* Connection.send leaving is_active as it is when the send fails
ConnSend_KeepsActive(g, h, kind, m) ==
    IF ~g.conn[h].is_active
    THEN g
    ELSE IF SendSucceeds(g, h)
    THEN [g EXCEPT !.wire[h] = IF kind \in WireKinds THEN Append(@, <<kind, m>>) ELSE @,
                   !.tx = Append(@, <<h, kind, m>>)]
    ELSE g

\* ConnectionManager.send_personal_message: the state after the call
ConnSend(g, h, kind, m) ==
    IF ~g.conn[h].is_active
    THEN g
    ELSE IF SendSucceeds(g, h)
    THEN [g EXCEPT !.wire[h] = IF kind \in WireKinds THEN Append(@, <<kind, m>>) ELSE @,
                   !.tx = Append(@, <<h, kind, m>>)]
    ELSE [g EXCEPT !.conn[h].is_active = FALSE]

\* ConnectionManager.ping returns True
PingSucceeds(g, h) == g.client_state[h] = "CONNECTED" /\ ~g.peer_gone[h]

\* ping with the flag of its except branch inverted
ConnPing_MarksActive(g, h) ==
    IF PingSucceeds(g, h)
    THEN [g EXCEPT !.tx = Append(@, <<h, "ping", None>>)]
    ELSE [g EXCEPT !.conn[h].is_active = TRUE]

\* ConnectionManager.ping: the state after the call
ConnPing(g, h) ==
    IF PingSucceeds(g, h)
    THEN [g EXCEPT !.tx = Append(@, <<h, "ping", None>>)]
    ELSE [g EXCEPT !.conn[h].is_active = FALSE]

\* disconnect without the recount of stats["active_connections"]
disconnect_NoRecount(g, c) ==
    IF c \in DOMAIN g.active_connections
    THEN [g EXCEPT !.active_connections = Del(@, c)]
    ELSE g

\* disconnect without the `if client_id in self.active_connections` guard on the topics
disconnect_Unguarded(g, c) ==
    LET emptied == {t \in DOMAIN g.subscriptions :
                       c \in g.subscriptions[t] /\ g.subscriptions[t] \ {c} = {}}
        left == Del(g.active_connections, c)
    IN [g EXCEPT !.subscriptions = [t \in (DOMAIN @) \ emptied |-> @[t] \ {c}],
                 !.active_connections = left,
                 !.stats.active_connections = Cardinality(DOMAIN left)]

\* disconnect without `del self.subscriptions[topic]` for the topics it empties
disconnect_KeepsEmptyTopics(g, c) ==
    IF c \in DOMAIN g.active_connections
    THEN LET left == Del(g.active_connections, c)
         IN [g EXCEPT !.subscriptions = [t \in DOMAIN @ |-> @[t] \ {c}],
                      !.active_connections = left,
                      !.stats.active_connections = Cardinality(DOMAIN left)]
    ELSE g

\* disconnect dropping the client's queue as well
disconnect_DropsQueue(g, c) ==
    IF c \in DOMAIN g.active_connections
    THEN LET emptied == {t \in DOMAIN g.subscriptions :
                            c \in g.subscriptions[t] /\ g.subscriptions[t] \ {c} = {}}
             left == Del(g.active_connections, c)
         IN [g EXCEPT !.subscriptions = [t \in (DOMAIN @) \ emptied |-> @[t] \ {c}],
                      !.active_connections = left,
                      !.message_queue = Del(@, c),
                      !.stats.active_connections = Cardinality(DOMAIN left)]
    ELSE g

\* disconnect taking the connection it removes off total_connections
disconnect_CountsDown(g, c) ==
    IF c \in DOMAIN g.active_connections
    THEN LET emptied == {t \in DOMAIN g.subscriptions :
                            c \in g.subscriptions[t] /\ g.subscriptions[t] \ {c} = {}}
             left == Del(g.active_connections, c)
         IN [g EXCEPT !.subscriptions = [t \in (DOMAIN @) \ emptied |-> @[t] \ {c}],
                      !.active_connections = left,
                      !.stats.total_connections = @ - 1,
                      !.stats.active_connections = Cardinality(DOMAIN left)]
    ELSE g

\* disconnect cut short after its loop over the topics, the entry still in place
disconnect_MembershipsOnly(g, c) ==
    IF c \in DOMAIN g.active_connections
    THEN LET emptied == {t \in DOMAIN g.subscriptions :
                            c \in g.subscriptions[t] /\ g.subscriptions[t] \ {c} = {}}
         IN [g EXCEPT !.subscriptions = [t \in (DOMAIN @) \ emptied |-> @[t] \ {c}]]
    ELSE g

\* WebSocketManager.disconnect
disconnect(g, c) ==
    IF c \in DOMAIN g.active_connections
    THEN LET emptied == {t \in DOMAIN g.subscriptions :
                            c \in g.subscriptions[t] /\ g.subscriptions[t] \ {c} = {}}
             pruned == [t \in (DOMAIN g.subscriptions) \ emptied |-> g.subscriptions[t] \ {c}]
             left == Del(g.active_connections, c)
         IN [g EXCEPT !.subscriptions = pruned,
                      !.active_connections = left,
                      !.stats.active_connections = Cardinality(DOMAIN left)]
    ELSE g

\* the registration starting the client_id afresh, without its memberships
Register_ClearsTopics(g, h, c) ==
    LET registered == Put(g.active_connections, c, h)
        emptied == {t \in DOMAIN g.subscriptions : g.subscriptions[t] \ {c} = {}}
    IN [g EXCEPT !.conn = Put(@, h, ConnectionManager(c)),
                 !.active_connections = registered,
                 !.subscriptions = [t \in (DOMAIN @) \ emptied |-> @[t] \ {c}],
                 !.stats.total_connections = @ + 1,
                 !.stats.active_connections = Cardinality(DOMAIN registered)]

\* the registration counting one more connection instead of the entries
Register_CountsUp(g, h, c) ==
    [g EXCEPT !.conn = Put(@, h, ConnectionManager(c)),
              !.active_connections = Put(@, c, h),
              !.stats.total_connections = @ + 1,
              !.stats.active_connections = @ + 1]

\* WebSocketManager.connect, from after the first sleep to the second: the registration
Register(g, h, c) ==
    LET registered == Put(g.active_connections, c, h)
    IN [g EXCEPT !.conn = Put(@, h, ConnectionManager(c)),
                 !.active_connections = registered,
                 !.stats.total_connections = @ + 1,
                 !.stats.active_connections = Cardinality(DOMAIN registered)]

\* the queueing branch putting the message in front of the queue
Enqueue_Prepends(g, c, m) ==
    [g EXCEPT !.message_queue =
        IF c \in DOMAIN @ THEN [@ EXCEPT ![c] = <<m>> \o @] ELSE Put(@, c, <<m>>)]

\* WebSocketManager.send_personal_message, the branch that queues for an offline client
Enqueue(g, c, m) ==
    [g EXCEPT !.message_queue =
        IF c \in DOMAIN @ THEN [@ EXCEPT ![c] = Append(@, m)] ELSE Put(@, c, <<m>>)]

\* send_personal_message not counting the send that failed
SpmResume_NoFailCount(g, c, ok) ==
    IF ok
    THEN [g EXCEPT !.stats.messages_sent = @ + 1]
    ELSE disconnect(g, c)

\* WebSocketManager.send_personal_message after connection.send_personal_message returned
SpmResume(g, c, ok) ==
    IF ok
    THEN [g EXCEPT !.stats.messages_sent = @ + 1]
    ELSE [disconnect(g, c) EXCEPT !.stats.failed_sends = @ + 1]

\* send_personal_message leaving an inactive Connection where it is
SpmCall_KeepsInactive(g, c, m) ==
    IF c \in DOMAIN g.active_connections
    THEN LET h == g.active_connections[c]
         IN IF g.conn[h].is_active
            THEN IF TransportReached(g, h)
                 THEN [g |-> ConnSend(g, h, "personal", m), parked |-> TRUE,
                       ok |-> SendSucceeds(g, h)]
                 ELSE [g |-> SpmResume(ConnSend(g, h, "personal", m), c, FALSE),
                       parked |-> FALSE, ok |-> FALSE]
            ELSE [g |-> g, parked |-> FALSE, ok |-> FALSE]
    ELSE [g |-> Enqueue(g, c, m), parked |-> FALSE, ok |-> FALSE]

\* WebSocketManager.send_personal_message up to its first suspension:
\* parked says the coroutine is suspended in send_text, ok what the send will return
SpmCall(g, c, m) ==
    IF c \in DOMAIN g.active_connections
    THEN LET h == g.active_connections[c]
         IN IF g.conn[h].is_active
            THEN IF TransportReached(g, h)
                 THEN [g |-> ConnSend(g, h, "personal", m), parked |-> TRUE,
                       ok |-> SendSucceeds(g, h)]
                 ELSE [g |-> SpmResume(ConnSend(g, h, "personal", m), c, FALSE),
                       parked |-> FALSE, ok |-> FALSE]
            ELSE [g |-> disconnect(g, c), parked |-> FALSE, ok |-> FALSE]
    ELSE [g |-> Enqueue(g, c, m), parked |-> FALSE, ok |-> FALSE]

\* subscribe taking the subscription back when its confirmation cannot be sent
SubscribeCall_RollsBack(g, c, t) ==
    LET added == [g EXCEPT !.subscriptions =
                     IF t \in DOMAIN @ THEN [@ EXCEPT ![t] = @ \cup {c}] ELSE Put(@, t, {c})]
    IN IF c \in DOMAIN g.active_connections
       THEN LET h == g.active_connections[c]
            IN [g |-> IF SendSucceeds(g, h)
                      THEN ConnSend(added, h, "subscription_confirmed", t)
                      ELSE ConnSend(g, h, "subscription_confirmed", t),
                parked |-> TransportReached(g, h)]
       ELSE [g |-> added, parked |-> FALSE]

\* subscribe creating the topic but adding only a client that has a Connection
SubscribeCall_OnlyConnected(g, c, t) ==
    LET created == [g EXCEPT !.subscriptions = IF t \in DOMAIN @ THEN @ ELSE Put(@, t, {})]
    IN IF c \in DOMAIN g.active_connections
       THEN LET h == g.active_connections[c]
            IN [g |-> ConnSend([created EXCEPT !.subscriptions[t] = @ \cup {c}],
                               h, "subscription_confirmed", t),
                parked |-> TransportReached(g, h)]
       ELSE [g |-> created, parked |-> FALSE]

\* WebSocketManager.subscribe up to its first suspension
SubscribeCall(g, c, t) ==
    LET added == [g EXCEPT !.subscriptions =
                     IF t \in DOMAIN @ THEN [@ EXCEPT ![t] = @ \cup {c}] ELSE Put(@, t, {c})]
    IN IF c \in DOMAIN g.active_connections
       THEN LET h == g.active_connections[c]
            IN [g |-> ConnSend(added, h, "subscription_confirmed", t),
                parked |-> TransportReached(g, h)]
       ELSE [g |-> added, parked |-> FALSE]

\* unsubscribe without `del self.subscriptions[topic]`
unsubscribe_KeepsEmptyTopic(g, c, t) ==
    IF t \in DOMAIN g.subscriptions
    THEN [g EXCEPT !.subscriptions[t] = @ \ {c}]
    ELSE g

\* unsubscribe deleting the topic whoever is left in it
unsubscribe_DeletesTopic(g, c, t) ==
    IF t \in DOMAIN g.subscriptions
    THEN [g EXCEPT !.subscriptions = Del(@, t)]
    ELSE g

\* WebSocketManager.unsubscribe
unsubscribe(g, c, t) ==
    IF t \in DOMAIN g.subscriptions
    THEN IF g.subscriptions[t] \ {c} = {}
         THEN [g EXCEPT !.subscriptions = Del(@, t)]
         ELSE [g EXCEPT !.subscriptions[t] = @ \ {c}]
    ELSE g

\* WebSocketManager.get_stats
get_stats(g) ==
    [total_connections |-> g.stats.total_connections,
     active_connections |-> g.stats.active_connections,
     messages_sent |-> g.stats.messages_sent,
     failed_sends |-> g.stats.failed_sends,
     topics |-> DOMAIN g.subscriptions,
     topic_subscribers |-> [t \in DOMAIN g.subscriptions |-> Cardinality(g.subscriptions[t])]]

\* ------------------------------------------------------------------ frames
\* A websocket_endpoint coroutine: where it is parked, its client_id, the result of the
\* send it is parked in, and connect's `for message in self.message_queue[client_id]`:
\* idx messages consumed from the list, which is message_queue[cid] itself while alias
\* holds and the detached list `own` once that entry was deleted or replaced.
EpIdle == [pc |-> "idle", cid |-> None, ok |-> FALSE, idx |-> 0, alias |-> FALSE, own |-> <<>>]
EpAt(f, pc) == [EpIdle EXCEPT !.pc = pc, !.cid = f.cid]

AppIdle == [pc |-> "idle", cid |-> None, ok |-> FALSE, mode |-> "none", topic |-> None,
            msg |-> EmptyDict, snap |-> {}, failed |-> {}]

HealthIdle == [pc |-> "sleep", snap |-> {}, failed |-> {}]

Init ==
    /\ active_connections = EmptyDict
    /\ conn = EmptyDict
    /\ subscriptions = EmptyDict
    /\ message_queue = EmptyDict
    /\ stats = [total_connections |-> 0, active_connections |-> 0,
                messages_sent |-> 0, failed_sends |-> 0]
    /\ bgtasks = [health_check_task |-> FALSE, cleanup_task |-> FALSE,
                  health_loops |-> 0, cleanup_loops |-> 0, cleanup_at |-> "sleep"]
    /\ client_state = [h \in Channels |-> "CONNECTING"]
    /\ peer_gone = [h \in Channels |-> FALSE]
    /\ wire = [h \in Channels |-> <<>>]
    /\ lastTx = <<>>
    /\ nextMsg = 1
    /\ ep = [h \in Channels |-> EpIdle]
    /\ app = AppIdle
    /\ health = HealthIdle
    /\ budget = [calls |-> 0, inbound |-> 0, passes |-> 0, cleanups |-> 0, faults |-> 0]

\* The list a parked connect is iterating
FlushList(g, f) == IF f.alias THEN g.message_queue[f.cid] ELSE f.own

\* A frame iterating message_queue[cid] keeps the list object when the entry goes away
Detach(f, mq, mqNew) ==
    IF f.alias /\ (f.cid \notin DOMAIN mqNew \/ Len(mqNew[f.cid]) < Len(mq[f.cid]))
    THEN [f EXCEPT !.alias = FALSE, !.own = mq[f.cid]]
    ELSE f

\* websocket_endpoint's `finally`, reached by an exception: disconnect(client_id)
EpExit(g, f) == [g |-> disconnect(g, f.cid), f |-> EpAt(f, "done")]

\* WebSocketManager.connect: `del self.message_queue[client_id]` and the return to
\* websocket_endpoint, which parks in receive_text; a KeyError leaves by the `finally`
ConnectReturn(g, f) ==
    IF f.cid \in DOMAIN g.message_queue
    THEN [g |-> [g EXCEPT !.message_queue = Del(@, f.cid)], f |-> EpAt(f, "loop")]
    ELSE EpExit(g, f)

\* the flush loop taking the newest message first
FlushFrom_NewestFirst(g, h, f) ==
    IF f.idx < Len(FlushList(g, f))
    THEN LET m == FlushList(g, f)[Len(FlushList(g, f)) - f.idx]
             sent == ConnSend(g, h, "queued", m)
         IN IF TransportReached(g, h)
            THEN [g |-> sent,
                  f |-> [f EXCEPT !.pc = "flushing", !.idx = @ + 1, !.ok = SendSucceeds(g, h)]]
            ELSE ConnectReturn(sent, f)
    ELSE ConnectReturn(g, f)

\* WebSocketManager.connect: the flush loop from the current index to its next suspension
FlushFrom(g, h, f) ==
    IF f.idx < Len(FlushList(g, f))
    THEN LET m == FlushList(g, f)[f.idx + 1]
             sent == ConnSend(g, h, "queued", m)
         IN IF TransportReached(g, h)
            THEN [g |-> sent,
                  f |-> [f EXCEPT !.pc = "flushing", !.idx = @ + 1, !.ok = SendSucceeds(g, h)]]
            ELSE ConnectReturn(sent, f)
    ELSE ConnectReturn(g, f)

\* WebSocketManager.connect after the welcome message: `if client_id in self.message_queue`
FlushBegin(g, h, f) ==
    IF f.cid \in DOMAIN g.message_queue
    THEN FlushFrom(g, h, [f EXCEPT !.alias = TRUE, !.idx = 0])
    ELSE [g |-> g, f |-> EpAt(f, "loop")]

\* The frames after a step of the endpoint of channel h that leaves frame f and state g
EpFrames(h, f, g) ==
    [k \in Channels |-> IF k = h THEN Detach(f, message_queue, g.message_queue)
                        ELSE Detach(ep[k], message_queue, g.message_queue)]

\* ----------------------------------------------------------- the transport
\* The peer of channel h vanishes without a close handshake
PeerGone(h) ==
    /\ ~peer_gone[h]
    /\ ep[h].pc # "done"
    /\ \A k \in 1..(h - 1) : ep[k].pc # "idle"
    /\ peer_gone' = [peer_gone EXCEPT ![h] = TRUE]
    /\ lastTx' = <<>>
    /\ UNCHANGED <<active_connections, conn, subscriptions, message_queue, stats, bgtasks, budget,
                   client_state, wire, nextMsg, ep, app, health>>

\* ------------------------------------------------------ websocket_endpoint
\* websocket_endpoint is entered for /ws/{c}: connect's accept, then its first sleep
EpStart(h, c) ==
    /\ ep[h].pc = "idle"
    /\ \A k \in 1..(h - 1) : ep[k].pc # "idle"
    /\ IF peer_gone[h]
       THEN LET r == EpExit(G, [EpIdle EXCEPT !.cid = c])
            IN /\ SetG(r.g)
               /\ ep' = EpFrames(h, r.f, r.g)
               /\ UNCHANGED client_state
       ELSE /\ client_state' = [client_state EXCEPT ![h] = "CONNECTED"]
            /\ ep' = [ep EXCEPT ![h] = [EpIdle EXCEPT !.pc = "accepted", !.cid = c]]
            /\ lastTx' = <<>>
            /\ UNCHANGED <<active_connections, conn, subscriptions, message_queue, stats, wire>>
    /\ UNCHANGED <<budget, bgtasks, peer_gone, nextMsg, app, health>>

\* connect: the Connection is created and registered, then the second sleep
ConnectRegister(h) ==
    /\ ep[h].pc = "accepted"
    /\ SetG(Register(G, h, ep[h].cid))
    /\ ep' = [ep EXCEPT ![h].pc = "registered"]
    /\ UNCHANGED <<budget, bgtasks, client_state, peer_gone, nextMsg, app, health>>

\* connect: the welcome message, and on when its send does not suspend
ConnectWelcome(h) ==
    /\ ep[h].pc = "registered"
    /\ LET sent == ConnSend(G, h, "connection_established", None)
           r == IF TransportReached(G, h)
                THEN [g |-> sent, f |-> [ep[h] EXCEPT !.pc = "welcomed", !.ok = SendSucceeds(G, h)]]
                ELSE FlushBegin(sent, h, ep[h])
       IN /\ SetG(r.g)
          /\ ep' = EpFrames(h, r.f, r.g)
    /\ UNCHANGED <<budget, bgtasks, client_state, peer_gone, nextMsg, app, health>>

\* connect resumes from the welcome send, or from the send of a queued message
ConnectFlush(h) ==
    /\ ep[h].pc \in {"welcomed", "flushing"}
    /\ LET r == IF ep[h].pc = "welcomed" THEN FlushBegin(G, h, ep[h]) ELSE FlushFrom(G, h, ep[h])
       IN /\ SetG(r.g)
          /\ ep' = EpFrames(h, r.f, r.g)
    /\ UNCHANGED <<budget, bgtasks, client_state, peer_gone, nextMsg, app, health>>

\* websocket_endpoint calls send_personal_message(actual_client_id, {...})
EpSpm(h, g, f) ==
    LET r == SpmCall(g, f.cid, nextMsg)
        nf == IF r.parked THEN [EpAt(f, "sending") EXCEPT !.ok = r.ok] ELSE EpAt(f, "loop")
    IN /\ SetG(r.g)
       /\ ep' = EpFrames(h, nf, r.g)
       /\ nextMsg' = nextMsg + 1

\* receive_text raises WebSocketDisconnect; the `finally` disconnects client_id
EpRecvDisconnect(h) ==
    /\ ep[h].pc = "loop"
    /\ peer_gone[h]
    /\ LET r == EpExit(G, ep[h])
       IN /\ SetG(r.g)
          /\ ep' = EpFrames(h, r.f, r.g)
    /\ client_state' = [client_state EXCEPT ![h] = "DISCONNECTED"]
    /\ UNCHANGED <<budget, bgtasks, peer_gone, nextMsg, app, health>>

\* receive_text returns {"type": "subscribe", "topic": t}: subscribe up to its suspension,
\* and on into send_personal_message when the confirmation does not suspend
EpRecvSubscribe(h, t) ==
    /\ ep[h].pc = "loop"
    /\ budget.inbound < MaxInbound
    /\ budget' = [budget EXCEPT !.inbound = @ + 1]
    /\ nextMsg <= MaxMsgs
    /\ LET r == SubscribeCall(G, ep[h].cid, t)
       IN IF r.parked
          THEN /\ SetG(r.g)
               /\ ep' = [ep EXCEPT ![h] = EpAt(@, "subscribing")]
               /\ UNCHANGED nextMsg
          ELSE EpSpm(h, r.g, ep[h])
    /\ UNCHANGED <<bgtasks, client_state, peer_gone, app, health>>

\* subscribe returns; send_personal_message(actual_client_id, {"type": "subscribed"})
EpSubscribed(h) ==
    /\ ep[h].pc = "subscribing"
    /\ EpSpm(h, G, ep[h])
    /\ UNCHANGED <<budget, bgtasks, client_state, peer_gone, app, health>>

\* receive_text returns {"type": "unsubscribe", "topic": t}
EpRecvUnsubscribe(h, t) ==
    /\ ep[h].pc = "loop"
    /\ budget.inbound < MaxInbound
    /\ budget' = [budget EXCEPT !.inbound = @ + 1]
    /\ SetG(unsubscribe(G, ep[h].cid, t))
    /\ UNCHANGED <<bgtasks, client_state, peer_gone, nextMsg, ep, app, health>>

\* receive_text returns {"type": "ping"} or {"type": "get_status"}: the answer is sent
\* with send_personal_message
EpRecvPing(h) ==
    /\ ep[h].pc = "loop"
    /\ budget.inbound < MaxInbound
    /\ budget' = [budget EXCEPT !.inbound = @ + 1]
    /\ nextMsg <= MaxMsgs
    /\ EpSpm(h, G, ep[h])
    /\ UNCHANGED <<bgtasks, client_state, peer_gone, app, health>>

\* send_personal_message resumes from connection.send_personal_message
EpSent(h) ==
    /\ ep[h].pc = "sending"
    /\ LET g == SpmResume(G, ep[h].cid, ep[h].ok)
       IN /\ SetG(g)
          /\ ep' = EpFrames(h, EpAt(ep[h], "loop"), g)
    /\ UNCHANGED <<budget, bgtasks, client_state, peer_gone, nextMsg, app, health>>

\* ------------------------------------------------------ application task
\* The callers of the manager's public operations other than the endpoint
AppSetEp(g) == ep' = [k \in Channels |-> Detach(ep[k], message_queue, g.message_queue)]

\* send_personal_message(c, message) up to its suspension
AppSend(c) ==
    /\ app.pc = "idle"
    /\ nextMsg <= MaxMsgs
    /\ LET r == SpmCall(G, c, nextMsg)
       IN /\ SetG(r.g)
          /\ AppSetEp(r.g)
          /\ app' = IF r.parked THEN [AppIdle EXCEPT !.pc = "sending", !.cid = c, !.ok = r.ok]
                    ELSE AppIdle
    /\ nextMsg' = nextMsg + 1
    /\ UNCHANGED <<budget, bgtasks, client_state, peer_gone, health>>

\* send_personal_message resumes from connection.send_personal_message
AppSent ==
    /\ app.pc = "sending"
    /\ LET g == SpmResume(G, app.cid, app.ok)
       IN SetG(g) /\ AppSetEp(g)
    /\ app' = AppIdle
    /\ UNCHANGED <<budget, bgtasks, client_state, peer_gone, nextMsg, health>>

\* subscribe(c, t) up to its suspension
AppSubscribe(c, t) ==
    /\ app.pc = "idle"
    /\ budget.calls < MaxCalls
    /\ budget' = [budget EXCEPT !.calls = @ + 1]
    /\ LET r == SubscribeCall(G, c, t)
       IN /\ SetG(r.g)
          /\ app' = IF r.parked THEN [AppIdle EXCEPT !.pc = "subscribing", !.cid = c] ELSE AppIdle
    /\ UNCHANGED <<bgtasks, client_state, peer_gone, nextMsg, ep, health>>

\* subscribe resumes from the confirmation's send and returns
AppSubscribed ==
    /\ app.pc = "subscribing"
    /\ app' = AppIdle
    /\ lastTx' = <<>>
    /\ UNCHANGED <<active_connections, conn, subscriptions, message_queue, stats, bgtasks, budget,
                   client_state, peer_gone, wire, nextMsg, ep, health>>

\* unsubscribe(c, t)
AppUnsubscribe(c, t) ==
    /\ app.pc = "idle"
    /\ budget.calls < MaxCalls
    /\ budget' = [budget EXCEPT !.calls = @ + 1]
    /\ SetG(unsubscribe(G, c, t))
    /\ UNCHANGED <<bgtasks, client_state, peer_gone, nextMsg, ep, app, health>>

\* disconnect(c)
AppDisconnect(c) ==
    /\ app.pc = "idle"
    /\ budget.calls < MaxCalls
    /\ budget' = [budget EXCEPT !.calls = @ + 1]
    /\ SetG(disconnect(G, c))
    /\ UNCHANGED <<bgtasks, client_state, peer_gone, nextMsg, ep, app, health>>

\* start_background_tasks creating its two tasks at every call
StartBackgroundTasks_Always ==
    /\ app.pc = "idle"
    /\ bgtasks' = [bgtasks EXCEPT !.health_check_task = TRUE, !.cleanup_task = TRUE,
                                  !.health_loops = @ + 1, !.cleanup_loops = @ + 1]
    /\ lastTx' = <<>>
    /\ UNCHANGED <<active_connections, conn, subscriptions, message_queue, stats, budget,
                   client_state, peer_gone, wire, nextMsg, ep, app, health>>

\* start_background_tasks
StartBackgroundTasks ==
    /\ app.pc = "idle"
    /\ bgtasks' = [health_check_task |-> TRUE, cleanup_task |-> TRUE,
                   health_loops |-> IF bgtasks.health_check_task THEN bgtasks.health_loops
                                    ELSE bgtasks.health_loops + 1,
                   cleanup_loops |-> IF bgtasks.cleanup_task THEN bgtasks.cleanup_loops
                                     ELSE bgtasks.cleanup_loops + 1,
                   cleanup_at |-> bgtasks.cleanup_at]
    /\ lastTx' = <<>>
    /\ UNCHANGED <<active_connections, conn, subscriptions, message_queue, stats, budget,
                   client_state, peer_gone, wire, nextMsg, ep, app, health>>

\* ---------------------------------------------------------------- broadcast
\* `for client_id in disconnected_clients: await self.disconnect(client_id)`
RECURSIVE DisconnectAll(_, _)
DisconnectAll(g, S) ==
    IF S = {} THEN g
    ELSE LET c == CHOOSE x \in S : TRUE IN DisconnectAll(disconnect(g, c), S \ {c})

\* The Connection a broadcast target stands for: broadcast_to_topic holds client ids and
\* looks the Connection up when the target's turn comes (x[2] = None), broadcast_to_all and
\* the health check hold the Connection objects of their snapshot
Resolve(g, x) ==
    IF x[2] # None THEN x[2]
    ELSE IF x[1] \in DOMAIN g.active_connections THEN g.active_connections[x[1]] ELSE None

\* The targets whose turn suspends the broadcast in send_text
Parking(g, snap) == {x \in snap : Resolve(g, x) # None /\ TransportReached(g, Resolve(g, x))}

\* The turns of the targets S, none of which suspends: a target with no Connection is
\* passed over, an inactive one is collected, an active one whose websocket is not
\* CONNECTED fails its send and is collected and counted
PassOver(g, f, S) ==
    LET known == {x \in S : Resolve(g, x) # None}
        tried == {Resolve(g, x) : x \in {y \in known : g.conn[Resolve(g, y)].is_active}}
    IN [g |-> [g EXCEPT !.conn = [k \in DOMAIN @ |-> IF k \in tried
                                      THEN [@[k] EXCEPT !.is_active = FALSE] ELSE @[k]],
                        !.stats.failed_sends = @ + Cardinality(tried)],
        f |-> [f EXCEPT !.snap = @ \ S, !.failed = @ \cup {x[1] : x \in known}]]

\* The outcomes of a broadcast running from its current target to its next suspension:
\* the snapshot is a set, so the targets come in any order
BroadcastRuns(g, f) ==
    LET quiet == f.snap \ Parking(g, f.snap)
    IN { LET p == PassOver(g, f, S \ {x})
             h == Resolve(g, x)
         IN [g |-> ConnSend(p.g, h, "broadcast", f.msg),
             f |-> [p.f EXCEPT !.pc = "broadcasting", !.cid = x[1], !.ok = SendSucceeds(g, h),
                               !.snap = @ \ {x}]]
         : <<S, x>> \in {<<T \cup {y}, y>> : T \in SUBSET quiet, y \in Parking(g, f.snap)} }
       \cup
       (IF Parking(g, f.snap) = {}
        THEN LET p == PassOver(g, f, f.snap)
             IN {[g |-> DisconnectAll(p.g, p.f.failed), f |-> AppIdle]}
        ELSE {})

\* `message["timestamp"] = datetime.utcnow().isoformat()`: the clock is not modelled, every
\* reading of it is the same value
utcnow == "utcnow"
Stamp(message) == Put(message, "timestamp", utcnow)

\* broadcast_to_topic creating the entry of a topic it does not find
broadcast_to_topic_CreatesTopic(g, t, m) ==
    IF t \notin DOMAIN g.subscriptions
    THEN {[g |-> [g EXCEPT !.subscriptions = Put(@, t, {})], f |-> AppIdle]}
    ELSE BroadcastRuns(g, [AppIdle EXCEPT !.mode = "topic", !.topic = t, !.msg = Stamp(m),
                                          !.snap = {<<c, None>> : c \in g.subscriptions[t]}])

\* WebSocketManager.broadcast_to_topic: the outcomes of the call up to its first
\* suspension, or to its return when it has none
broadcast_to_topic(g, t, m) ==
    IF t \notin DOMAIN g.subscriptions
    THEN {[g |-> g, f |-> AppIdle]}
    ELSE BroadcastRuns(g, [AppIdle EXCEPT !.mode = "topic", !.topic = t, !.msg = Stamp(m),
                                          !.snap = {<<c, None>> : c \in g.subscriptions[t]}])

\* broadcast_to_topic(t, message) up to its first suspension
AppBroadcastTopic(t) ==
    /\ app.pc = "idle"
    /\ nextMsg <= MaxMsgs
    /\ \E r \in broadcast_to_topic(G, t, [id |-> nextMsg]) : SetG(r.g) /\ app' = r.f
    /\ nextMsg' = nextMsg + 1
    /\ UNCHANGED <<budget, bgtasks, client_state, peer_gone, ep, health>>

\* broadcast_to_all with the Connections of the subscribers as its snapshot
broadcast_to_all_SubscribersOnly(g, m) ==
    BroadcastRuns(g, [AppIdle EXCEPT !.mode = "all", !.msg = Stamp(m),
        !.snap = {<<c, g.active_connections[c]>> :
                     c \in {d \in DOMAIN g.active_connections :
                               \E t \in DOMAIN g.subscriptions : d \in g.subscriptions[t]}}])

\* WebSocketManager.broadcast_to_all: the outcomes of the call up to its first suspension,
\* or to its return when it has none
broadcast_to_all(g, m) ==
    BroadcastRuns(g, [AppIdle EXCEPT !.mode = "all", !.msg = Stamp(m),
        !.snap = {<<c, g.active_connections[c]>> : c \in DOMAIN g.active_connections}])

\* broadcast_to_all(message) up to its first suspension
AppBroadcastAll ==
    /\ app.pc = "idle"
    /\ nextMsg <= MaxMsgs
    /\ \E r \in broadcast_to_all(G, [id |-> nextMsg]) : SetG(r.g) /\ app' = r.f
    /\ nextMsg' = nextMsg + 1
    /\ UNCHANGED <<budget, bgtasks, client_state, peer_gone, ep, health>>

\* a broadcast disconnecting the target of a failed send as soon as it resumes from it
BroadcastResume_DisconnectsAtOnce(g, f) ==
    IF f.ok
    THEN [g |-> [g EXCEPT !.stats.messages_sent = @ + 1], f |-> f]
    ELSE [g |-> disconnect([g EXCEPT !.stats.failed_sends = @ + 1], f.cid),
          f |-> [f EXCEPT !.failed = @ \cup {f.cid}]]

\* The count of the send a broadcast resumes from
BroadcastResume(g, f) ==
    IF f.ok
    THEN [g |-> [g EXCEPT !.stats.messages_sent = @ + 1], f |-> f]
    ELSE [g |-> [g EXCEPT !.stats.failed_sends = @ + 1], f |-> [f EXCEPT !.failed = @ \cup {f.cid}]]

\* a broadcast resumes from connection.send_personal_message and runs to its next suspension
AppBroadcastNext ==
    /\ app.pc = "broadcasting"
    /\ LET b == BroadcastResume(G, app)
       IN \E r \in BroadcastRuns(b.g, b.f) : SetG(r.g) /\ app' = r.f
    /\ UNCHANGED <<budget, bgtasks, client_state, peer_gone, nextMsg, ep, health>>

\* ------------------------------------------------------------------- feeds
\* The topics the three feeds broadcast to: "market_data", "news" and "signals"
market_data == 1
news == 2
signals == 3
FeedTopics == {market_data, news, signals}

\* WebSocketManager.broadcast_market_update
broadcast_market_update(g, data) ==
    broadcast_to_topic(g, market_data,
                       [type |-> "market_update", data |-> data, source |-> "real_time_feed"])

\* broadcast_news_update broadcasting its message to the topic of the market feed
broadcast_news_update_ToMarket(g, data) ==
    broadcast_to_topic(g, market_data,
                       [type |-> "news_update", data |-> data, source |-> "news_feed"])

\* WebSocketManager.broadcast_news_update
broadcast_news_update(g, data) ==
    broadcast_to_topic(g, news,
                       [type |-> "news_update", data |-> data, source |-> "news_feed"])

\* WebSocketManager.broadcast_ai_signal
broadcast_ai_signal(g, data) ==
    broadcast_to_topic(g, signals,
                       [type |-> "ai_signal", data |-> data, source |-> "ai_agents"])

\* broadcast_market_update(data) up to its first suspension
AppMarketUpdate ==
    /\ app.pc = "idle"
    /\ nextMsg <= MaxMsgs
    /\ \E r \in broadcast_market_update(G, nextMsg) : SetG(r.g) /\ app' = r.f
    /\ nextMsg' = nextMsg + 1
    /\ UNCHANGED <<budget, bgtasks, client_state, peer_gone, ep, health>>

\* broadcast_news_update(data) up to its first suspension
AppNewsUpdate ==
    /\ app.pc = "idle"
    /\ nextMsg <= MaxMsgs
    /\ \E r \in broadcast_news_update(G, nextMsg) : SetG(r.g) /\ app' = r.f
    /\ nextMsg' = nextMsg + 1
    /\ UNCHANGED <<budget, bgtasks, client_state, peer_gone, ep, health>>

\* broadcast_ai_signal(data) up to its first suspension
AppAiSignal ==
    /\ app.pc = "idle"
    /\ nextMsg <= MaxMsgs
    /\ \E r \in broadcast_ai_signal(G, nextMsg) : SetG(r.g) /\ app' = r.f
    /\ nextMsg' = nextMsg + 1
    /\ UNCHANGED <<budget, bgtasks, client_state, peer_gone, ep, health>>

\* --------------------------------------------------------- background loops
\* one ping of _health_check_loop's pass over its snapshot
HealthPing(g, f, x) ==
    [g |-> ConnPing(g, x[2]),
     f |-> [f EXCEPT !.pc = "pinging", !.snap = @ \ {x},
                     !.failed = IF PingSucceeds(g, x[2]) THEN @ ELSE @ \cup {x[1]}]]

\* the health-check loop ending at the first error of a pass
HealthPass_EndsOnError ==
    /\ bgtasks.health_check_task
    /\ health.pc = "sleep"
    /\ LET snap == {<<c, active_connections[c]>> : c \in DOMAIN active_connections}
       IN IF snap = {}
          THEN /\ health' = HealthIdle
               /\ lastTx' = <<>>
               /\ UNCHANGED <<active_connections, conn, subscriptions, message_queue, stats, wire>>
          ELSE \E x \in snap :
                  LET r == HealthPing(G, [HealthIdle EXCEPT !.snap = snap], x)
                  IN SetG(r.g) /\ health' = r.f
    /\ UNCHANGED <<bgtasks, client_state, peer_gone, nextMsg, ep, app>>

\* _health_check_loop wakes from its sleep, the one after a pass or the one of its
\* `except`, takes its snapshot and sends the first ping
HealthPass ==
    /\ bgtasks.health_check_task
    /\ health.pc \in {"sleep", "except"}
    /\ LET snap == {<<c, active_connections[c]>> : c \in DOMAIN active_connections}
       IN IF snap = {}
          THEN /\ health' = HealthIdle
               /\ lastTx' = <<>>
               /\ UNCHANGED <<active_connections, conn, subscriptions, message_queue, stats, wire>>
          ELSE \E x \in snap :
                  LET r == HealthPing(G, [HealthIdle EXCEPT !.snap = snap], x)
                  IN SetG(r.g) /\ health' = r.f
    /\ UNCHANGED <<bgtasks, client_state, peer_gone, nextMsg, ep, app>>

\* a pass of _health_check_loop, of the passes counted by the budget
HealthWake ==
    /\ budget.passes < MaxPasses
    /\ budget' = [budget EXCEPT !.passes = @ + 1]
    /\ HealthPass

\* a pass of _health_check_loop, every 30 seconds for as long as the process runs
HealthCycle == HealthPass /\ UNCHANGED budget

\* an error is raised inside a pass of _health_check_loop: the `except` logs it and sleeps
HealthFault ==
    /\ health.pc = "pinging"
    /\ budget.faults < MaxFaults
    /\ budget' = [budget EXCEPT !.faults = @ + 1]
    /\ health' = [HealthIdle EXCEPT !.pc = "except"]
    /\ lastTx' = <<>>
    /\ UNCHANGED <<active_connections, conn, subscriptions, message_queue, stats, bgtasks,
                   client_state, peer_gone, wire, nextMsg, ep, app>>

\* the health check without the disconnects after its pass
HealthNext_NoCleanup ==
    /\ health.pc = "pinging"
    /\ IF health.snap = {}
       THEN SetG(G) /\ health' = HealthIdle
       ELSE \E x \in health.snap :
               LET r == HealthPing(G, health, x)
               IN SetG(r.g) /\ health' = r.f
    /\ UNCHANGED <<budget, bgtasks, client_state, peer_gone, nextMsg, ep, app>>

\* _health_check_loop resumes from a ping: the next ping, or the clean-up and the sleep
HealthNext ==
    /\ health.pc = "pinging"
    /\ IF health.snap = {}
       THEN SetG(DisconnectAll(G, health.failed)) /\ health' = HealthIdle
       ELSE \E x \in health.snap :
               LET r == HealthPing(G, health, x)
               IN SetG(r.g) /\ health' = r.f
    /\ UNCHANGED <<budget, bgtasks, client_state, peer_gone, nextMsg, ep, app>>

\* the pass keeping the oldest messages of a long queue instead of the newest
CleanupQueues_KeepsOldest(g) ==
    [g EXCEPT !.message_queue =
        [c \in DOMAIN @ |-> IF Len(@[c]) > QueueCap THEN SubSeq(@[c], 1, QueueCap) ELSE @[c]]]

\* the pass cutting a long queue to one message fewer than the cap
CleanupQueues_OffByOne(g) ==
    [g EXCEPT !.message_queue =
        [c \in DOMAIN @ |-> IF Len(@[c]) > QueueCap
                            THEN SubSeq(@[c], Len(@[c]) - QueueCap + 2, Len(@[c]))
                            ELSE @[c]]]

\* one pass of _cleanup_loop
CleanupQueues(g) ==
    [g EXCEPT !.message_queue =
        [c \in DOMAIN @ |-> IF Len(@[c]) > QueueCap
                            THEN SubSeq(@[c], Len(@[c]) - QueueCap + 1, Len(@[c]))
                            ELSE @[c]]]

\* _cleanup_loop wakes from its sleep, the one after a pass or the one of its `except`,
\* and runs one pass
CleanupRun ==
    /\ bgtasks.cleanup_task
    /\ LET g == CleanupQueues(G)
       IN SetG(g) /\ AppSetEp(g)
    /\ bgtasks' = [bgtasks EXCEPT !.cleanup_at = "sleep"]
    /\ UNCHANGED <<client_state, peer_gone, nextMsg, app, health>>

\* a pass of _cleanup_loop, of the passes counted by the budget
CleanupPass ==
    /\ budget.cleanups < MaxCleanups
    /\ budget' = [budget EXCEPT !.cleanups = @ + 1]
    /\ CleanupRun

\* a pass of _cleanup_loop, every 300 seconds for as long as the process runs
CleanupCycle == CleanupRun /\ UNCHANGED budget

\* an error is raised inside a pass of _cleanup_loop before it has changed a queue: the
\* `except` logs it and sleeps
CleanupFault ==
    /\ bgtasks.cleanup_task
    /\ bgtasks.cleanup_at = "sleep"
    /\ budget.cleanups < MaxCleanups
    /\ budget' = [budget EXCEPT !.cleanups = @ + 1]
    /\ bgtasks' = [bgtasks EXCEPT !.cleanup_at = "except"]
    /\ lastTx' = <<>>
    /\ UNCHANGED <<active_connections, conn, subscriptions, message_queue, stats,
                   client_state, peer_gone, wire, nextMsg, ep, app, health>>

\* send_personal_message(c, message) for a client that stays offline, as many times as
\* it takes to pass the cap of the queue
OfflineClient == CHOOSE c \in Clients : TRUE

OfflineSend ==
    /\ app.pc = "idle"
    /\ nextMsg <= MaxOffline
    /\ LET r == SpmCall(G, OfflineClient, nextMsg)
       IN SetG(r.g) /\ AppSetEp(r.g)
    /\ nextMsg' = nextMsg + 1
    /\ UNCHANGED <<budget, bgtasks, client_state, peer_gone, app, health>>

\* ----------------------------------------------------------- specifications
\* websocket_endpoint up to the return of connect, its exit, and the transport
ConnectActions ==
    \/ \E h \in Channels : PeerGone(h)
    \/ \E h \in Channels, c \in Clients : EpStart(h, c)
    \/ \E h \in Channels : ConnectRegister(h)
    \/ \E h \in Channels : ConnectWelcome(h)
    \/ \E h \in Channels : ConnectFlush(h)
    \/ \E h \in Channels : EpRecvDisconnect(h)

\* websocket_endpoint's handling of the messages it receives
InboundActions ==
    \/ \E h \in Channels, t \in Topics : EpRecvSubscribe(h, t)
    \/ \E h \in Channels : EpSubscribed(h)
    \/ \E h \in Channels, t \in Topics : EpRecvUnsubscribe(h, t)
    \/ \E h \in Channels : EpRecvPing(h)
    \/ \E h \in Channels : EpSent(h)

\* send_personal_message called by the application
SendActions ==
    \/ \E c \in Clients : AppSend(c)
    \/ AppSent

\* the health-check loop
HealthActions ==
    \/ StartBackgroundTasks
    \/ HealthWake
    \/ HealthNext

\* The endpoints of all channels, with the application sending personal messages
Next == ConnectActions \/ InboundActions \/ SendActions

Spec == Init /\ [][Next]_vars

\* Connections made and lost, personal messages and the health-check loop
NextHealth == ConnectActions \/ SendActions \/ HealthActions

SpecHealth == Init /\ [][NextHealth]_vars

\* One client that never connects, the messages sent to it and the clean-up loop
NextQueue == OfflineSend \/ StartBackgroundTasks \/ CleanupPass

SpecQueue == Init /\ [][NextQueue]_vars

\* subscribe, unsubscribe and disconnect called by the application
TopicActions ==
    \/ \E c \in Clients, t \in Topics : AppSubscribe(c, t)
    \/ AppSubscribed
    \/ \E c \in Clients, t \in Topics : AppUnsubscribe(c, t)
    \/ \E c \in Clients : AppDisconnect(c)

\* Connections made and lost while the application subscribes, unsubscribes and disconnects
NextTopics == ConnectActions \/ TopicActions

SpecTopics == Init /\ [][NextTopics]_vars

\* subscribe called by the application before it broadcasts
BroadcastSubscribe(c, t) == budget.calls < MaxSetup /\ AppSubscribe(c, t)

\* broadcast_to_topic, and the subscribe calls of the application and of the endpoints
BroadcastActions ==
    \/ \E t \in Topics : AppBroadcastTopic(t)
    \/ AppBroadcastNext
    \/ \E c \in Clients, t \in Topics : BroadcastSubscribe(c, t)
    \/ AppSubscribed
    \/ \E h \in Channels, t \in Topics : EpRecvSubscribe(h, t)
    \/ \E h \in Channels : EpSubscribed(h)
    \/ \E h \in Channels : EpSent(h)

\* Connections made and lost, subscriptions and topic broadcasts
NextBroadcast == ConnectActions \/ BroadcastActions

SpecBroadcast == Init /\ [][NextBroadcast]_vars

\* Connections made and lost and clients subscribed while the health-check loop runs
\* pass after pass
NextLoops ==
    \/ ConnectActions
    \/ \E c \in Clients, t \in Topics : BroadcastSubscribe(c, t)
    \/ AppSubscribed
    \/ StartBackgroundTasks
    \/ HealthCycle
    \/ HealthNext

\* The event loop resumes the health-check task whenever its sleep or its ping is over
SpecLoops ==
    Init /\ [][NextLoops]_vars /\ WF_vars(HealthCycle) /\ WF_vars(HealthNext)

\* Connections made and lost while the two loops run pass after pass, some of the passes
\* ending in an error
NextFaults ==
    \/ ConnectActions
    \/ StartBackgroundTasks
    \/ HealthCycle
    \/ HealthNext
    \/ HealthFault
    \/ CleanupCycle
    \/ CleanupFault

\* The event loop resumes the tasks of the two loops whenever their sleep or their ping
\* is over
SpecFaults ==
    Init /\ [][NextFaults]_vars
         /\ WF_vars(HealthCycle) /\ WF_vars(HealthNext) /\ WF_vars(CleanupCycle)

\* subscribe called by the application for the topics of the feeds
FeedSubscribe(c, t) == budget.calls < MaxFeedSubs /\ AppSubscribe(c, t)

\* Connections made and lost and clients subscribed to the topics of the feeds while the
\* three feeds broadcast
NextFeeds ==
    \/ ConnectActions
    \/ \E c \in Clients, t \in FeedTopics : FeedSubscribe(c, t)
    \/ AppSubscribed
    \/ AppMarketUpdate
    \/ AppNewsUpdate
    \/ AppAiSignal
    \/ AppBroadcastNext

SpecFeeds == Init /\ [][NextFeeds]_vars

\* Connections made and lost and a client subscribed while the application broadcasts to
\* all
NextAll ==
    \/ ConnectActions
    \/ \E c \in Clients, t \in Topics : BroadcastSubscribe(c, t)
    \/ AppSubscribed
    \/ AppBroadcastAll
    \/ AppBroadcastNext

SpecAll == Init /\ [][NextAll]_vars

\* Connections made and lost and a client subscribed while the application sends
\* personal messages and broadcasts to a topic and to all
NextStats ==
    \/ ConnectActions
    \/ \E c \in Clients, t \in Topics : BroadcastSubscribe(c, t)
    \/ AppSubscribed
    \/ SendActions
    \/ \E t \in Topics : AppBroadcastTopic(t)
    \/ AppBroadcastAll
    \/ AppBroadcastNext

SpecStats == Init /\ [][NextStats]_vars

\* ------------------------------------------------------------------ claims
\* The manager's state after the step, for the formulas that compare a step's two states
GP == [active_connections |-> active_connections', conn |-> conn',
       subscriptions |-> subscriptions', message_queue |-> message_queue',
       stats |-> stats', wire |-> wire', tx |-> <<>>,
       client_state |-> client_state', peer_gone |-> peer_gone']

IsQueued(e) == e[1] = "queued"
IsPersonal(e) == e[1] \in {"queued", "personal"}
\* The messages of a wire history, in the order they were transmitted
Ids(w) == [i \in 1..Len(w) |-> w[i][2]]
Increasing(q) == \A i, j \in 1..Len(q) : i < j => q[i] < q[j]
IsPrefix(p, q) == Len(p) <= Len(q) /\ \A i \in 1..Len(p) : p[i] = q[i]
\* connect of channel h takes a step after its registration without leaving by an exception
ConnectContinues(h) ==
    /\ ep[h].pc \in {"registered", "welcomed", "flushing"}
    /\ ep'[h].pc \in {"welcomed", "flushing", "loop"}
    /\ ep'[h].pc # ep[h].pc \/ ep'[h].idx # ep[h].idx

\* connect of channel h returns to websocket_endpoint in this step
ConnectReturns(h) ==
    /\ ep[h].pc \in {"registered", "welcomed", "flushing"}
    /\ ep'[h].pc = "loop"

\* C1: in every reachable state, client c is in subscriptions[t] if and only if c has a
\* Connection and that Connection's own subscriptions set contains t.
C1_SubscriptionsMirrored ==
    \A c \in Clients, t \in Topics :
        (t \in DOMAIN subscriptions /\ c \in subscriptions[t])
        <=> (c \in DOMAIN active_connections
             /\ t \in conn[active_connections[c]].subscriptions)

\* C2: in every reachable state, every client in a topic's subscriber set has an entry
\* in active_connections.
C2_NoStaleSubscriber ==
    \A t \in DOMAIN subscriptions : subscriptions[t] \subseteq DOMAIN active_connections

\* C3: in every state, also those inside connect, no client has both an entry in
\* message_queue and an entry in active_connections.
C3_QueueOnlyWhileOffline ==
    (DOMAIN message_queue) \cap (DOMAIN active_connections) = {}

\* C4: stats.active_connections equals the number of entries of active_connections in
\* every state, so after every operation that changes either.
C4_ActiveCountMatches ==
    stats.active_connections = Cardinality(DOMAIN active_connections)

\* C4: a Connection was registered and one was removed or replaced since
C4_Witness ==
    /\ stats.total_connections = 2
    /\ stats.active_connections = 1
    /\ \E h \in Channels : ep[h].pc = "done"

\* C5 as stated: no queue of message_queue ever holds more than QueueCap messages.
C5_QueueCapped ==
    \A c \in DOMAIN message_queue : Len(message_queue[c]) <= QueueCap

\* C5 amended: send_personal_message appends to the queue of an offline client and drops
\* nothing, whatever the length; a clean-up pass leaves every queue with at most QueueCap
\* messages, the newest ones in their order, the oldest dropped.
C5_CapAtCleanup ==
    [][/\ nextMsg' # nextMsg =>
             \E c \in Clients :
                 message_queue' = Enqueue(G, c, nextMsg).message_queue
       /\ budget'.cleanups # budget.cleanups =>
             /\ DOMAIN message_queue' = DOMAIN message_queue
             /\ \A c \in DOMAIN message_queue :
                   LET old == message_queue[c]
                       new == message_queue'[c]
                   IN /\ Len(new) = IF Len(old) > QueueCap THEN QueueCap ELSE Len(old)
                      /\ \A i \in 1..Len(new) : new[i] = old[Len(old) - Len(new) + i]]_vars

\* C5: a queue that had passed the cap was cut by a clean-up pass to the newest QueueCap
C5_Witness ==
    /\ budget.cleanups >= 1
    /\ \E c \in DOMAIN message_queue :
          Len(message_queue[c]) = QueueCap /\ message_queue[c][1] > 1

\* C6: when connect returns after its flush, the queued messages transmitted on the
\* channel are a prefix of the list it iterated, in the list's order, and the whole list
\* if the Connection is still active; the welcome message went before them; the list is in
\* the order of the send_personal_message calls; and the queue entry is deleted.
C6_FifoFlush ==
    [][\A h \in Channels :
          (ConnectReturns(h) /\ ep[h].pc = "flushing") =>
              LET list == FlushList(G, ep[h])
                  sent == Ids(SelectSeq(wire'[h], IsQueued))
              IN /\ Increasing(list)
                 /\ IsPrefix(sent, list)
                 /\ conn'[h].is_active => sent = list
                 /\ \A i \in 1..Len(wire'[h]) :
                       IsQueued(wire'[h][i]) =>
                           \E j \in 1..(i - 1) : wire'[h][j][1] = "connection_established"
                 /\ ep[h].cid \notin DOMAIN message_queue']_vars

\* C6: a connect has returned after flushing two queued messages to a healthy channel
C6_Witness ==
    \E h \in Channels :
        /\ ep[h].pc = "loop"
        /\ conn[h].is_active
        /\ Len(SelectSeq(wire[h], IsQueued)) >= 2

\* C7: on every channel the messages of send_personal_message calls are transmitted in
\* the order of the calls (messages are numbered in call order).
C7_CallOrderOnWire ==
    \A h \in Channels : Increasing(Ids(SelectSeq(wire[h], IsPersonal)))

\* C8 as stated: the registration of connect always raises active_connections by one.
C8_ConnectAddsOne ==
    [][\A h \in Channels :
          (ep[h].pc = "accepted" /\ ep'[h].pc = "registered") =>
              stats'.active_connections = stats.active_connections + 1]_vars

\* C8 amended: registering a client_id that has no entry raises active_connections by
\* exactly one and a disconnect right after it returns the prior value; registering a
\* client_id that has an entry leaves the count as it is; no later step of connect
\* changes it.
C8_ConnectCount ==
    [][\A h \in Channels :
          /\ (ep[h].pc = "accepted" /\ ep'[h].pc = "registered") =>
                IF ep[h].cid \in DOMAIN active_connections
                THEN stats'.active_connections = stats.active_connections
                ELSE /\ stats'.active_connections = stats.active_connections + 1
                     /\ disconnect(GP, ep[h].cid).stats.active_connections
                            = stats.active_connections
          /\ ConnectContinues(h) =>
                stats'.active_connections = stats.active_connections]_vars

\* C8: two connects for the same client_id have returned and one entry is counted
C8_Witness ==
    /\ \A h \in Channels : ep[h].pc = "loop" /\ ep[h].cid = ep[1].cid
    /\ stats.active_connections = 1

\* C9: when connect returns, active_connections has an entry for its client_id.
C9_ConnectionOnReturn ==
    [][\A h \in Channels :
          ConnectReturns(h) => ep[h].cid \in DOMAIN active_connections']_vars

\* C10: disconnect is idempotent on every reachable manager state, and the disconnect of
\* a client_id without an entry in active_connections changes nothing.
C10_DisconnectIdempotent ==
    \A c \in Clients :
        /\ disconnect(disconnect(G, c), c) = disconnect(G, c)
        /\ c \notin DOMAIN active_connections => disconnect(G, c) = G

\* C10: a connected client is subscribed, so that its disconnect removes something
C10_Witness ==
    \E c \in DOMAIN active_connections :
        /\ \E t \in DOMAIN subscriptions : c \in subscriptions[t]
        /\ disconnect(G, c) # G

\* C11: the disconnect of a client that has a Connection leaves the client in no topic's
\* subscriber set, deletes every topic whose set it emptied (and leaves no empty set),
\* removes the client's entry from active_connections and leaves every other client in
\* exactly the subscriber sets it was in.
C11_DisconnectRemoves ==
    \A c \in DOMAIN active_connections :
        LET d == disconnect(G, c)
        IN /\ \A t \in DOMAIN d.subscriptions : c \notin d.subscriptions[t]
           /\ \A t \in DOMAIN subscriptions :
                 (c \in subscriptions[t] /\ subscriptions[t] \ {c} = {})
                     => t \notin DOMAIN d.subscriptions
           /\ \A t \in DOMAIN d.subscriptions : d.subscriptions[t] # {}
           /\ c \notin DOMAIN d.active_connections
           /\ \A o \in Clients \ {c}, t \in Topics :
                 (t \in DOMAIN subscriptions /\ o \in subscriptions[t])
                 <=> (t \in DOMAIN d.subscriptions /\ o \in d.subscriptions[t])

\* C11: two connected clients, one the only subscriber of a topic and both subscribers of
\* another, so that a disconnect deletes one topic and leaves the other to the other client
C11_Witness ==
    \E c \in DOMAIN active_connections, o \in DOMAIN active_connections :
        /\ o # c
        /\ \E t \in DOMAIN subscriptions : subscriptions[t] = {c}
        /\ \E t \in DOMAIN subscriptions : subscriptions[t] = {c, o}

\* C12: disconnect leaves message_queue as it is for every client, and a
\* send_personal_message to the client right after its disconnect appends the message to
\* the end of message_queue[client_id] without transmitting or suspending.
C12_DisconnectKeepsQueue ==
    \A c \in Clients :
        LET d == disconnect(G, c)
            r == SpmCall(d, c, nextMsg)
            before == IF c \in DOMAIN message_queue THEN message_queue[c] ELSE <<>>
        IN /\ d.message_queue = message_queue
           /\ ~r.parked
           /\ r.g.tx = <<>>
           /\ DOMAIN r.g.message_queue = (DOMAIN message_queue) \cup {c}
           /\ r.g.message_queue[c] = Append(before, nextMsg)
           /\ \A o \in (DOMAIN message_queue) \ {c} : r.g.message_queue[o] = message_queue[o]

\* C12: a client with a Connection and a queue entry is disconnected when its endpoint
\* ends, and the queue entry is still there
C12_Witness ==
    \E h \in DOMAIN conn :
        /\ ep[h].pc = "done"
        /\ ep[h].cid \notin DOMAIN active_connections
        /\ ep[h].cid \in DOMAIN message_queue
        /\ Len(message_queue[ep[h].cid]) >= 1

\* C13: for every client c and topic t, unsubscribe(c, t) leaves t out of
\* get_stats().topics when no other client is subscribed to t, and so does
\* subscribe(c, t) followed by unsubscribe(c, t); when another client is subscribed the
\* topic stays with the other subscribers only; no topic is listed with 0 subscribers.
C13_EmptyTopicPruned ==
    \A c \in Clients, t \in Topics :
        LET others == IF t \in DOMAIN subscriptions THEN subscriptions[t] \ {c} ELSE {}
            u == unsubscribe(G, c, t)
            su == unsubscribe(SubscribeCall(G, c, t).g, c, t)
        IN /\ others = {} => (t \notin get_stats(u).topics /\ t \notin get_stats(su).topics)
           /\ others # {} => (/\ t \in get_stats(su).topics
                              /\ su.subscriptions[t] = others
                              /\ u.subscriptions[t] = others)
           /\ \A x \in get_stats(su).topics : get_stats(su).topic_subscribers[x] > 0
           /\ \A x \in Topics \ {t} : x \in get_stats(su).topics <=> x \in get_stats(G).topics

\* C13: three calls were made and they left one topic listed and the other not
C13_Witness ==
    /\ budget.calls = MaxCalls
    /\ \E t \in Topics : t \notin get_stats(G).topics
    /\ \E t \in Topics : t \in get_stats(G).topics /\ get_stats(G).topic_subscribers[t] = 1

\* C14: a broadcast_to_topic that resumes from a failed send goes on to the next target
\* of its snapshot that has an active Connection on a connected websocket, and when the
\* call returns the subscriber whose send failed is in no subscriber set and has no
\* entry in active_connections.
C14_BroadcastIsolation ==
    [][(app.pc = "broadcasting" /\ app.mode = "topic" /\ ~app.ok /\ app' # app) =>
          /\ Parking(G, app.snap) # {} =>
                /\ app'.pc = "broadcasting"
                /\ \E x \in Parking(G, app.snap) : app'.cid = x[1] /\ x \notin app'.snap
          /\ app'.pc = "idle" =>
                /\ app.cid \notin DOMAIN active_connections'
                /\ \A t \in DOMAIN subscriptions' : app.cid \notin subscriptions'[t]]_vars

\* C15: a send_personal_message of the application to a client with an active Connection
\* on a connected websocket makes one Connection.send and changes nothing else before it
\* resumes; resuming from a successful send it raises messages_sent by one and changes
\* nothing else; resuming from a failed one it leaves the client without an entry in
\* active_connections and in no subscriber set, raises failed_sends by one, leaves
\* messages_sent, and neither transmits again nor queues the message.
C15_SendOutcome ==
    [][/\ (app.pc = "idle" /\ app'.pc = "sending") =>
             /\ app'.cid \in DOMAIN active_connections
             /\ conn[active_connections[app'.cid]].is_active
             /\ lastTx' = IF app'.ok
                           THEN <<(<<active_connections[app'.cid], "personal", nextMsg>>)>>
                           ELSE <<>>
             /\ message_queue' = message_queue
             /\ stats' = stats
             /\ active_connections' = active_connections
             /\ subscriptions' = subscriptions
       /\ (app.pc = "sending" /\ app'.pc = "idle") =>
             /\ lastTx' = <<>>
             /\ wire' = wire
             /\ message_queue' = message_queue
             /\ IF app.ok
                THEN /\ stats' = [stats EXCEPT !.messages_sent = @ + 1]
                     /\ active_connections' = active_connections
                     /\ subscriptions' = subscriptions
                     /\ conn' = conn
                ELSE /\ app.cid \notin DOMAIN active_connections'
                     /\ \A t \in DOMAIN subscriptions' : app.cid \notin subscriptions'[t]
                     /\ stats'.failed_sends = stats.failed_sends + 1
                     /\ stats'.messages_sent = stats.messages_sent]_vars

\* C16: send_personal_message to a client whose Connection is in active_connections with
\* is_active false does not suspend, transmits nothing, and leaves the client without an
\* entry in active_connections and in no subscriber set.
C16_InactiveIsRemoved ==
    \A c \in DOMAIN active_connections :
        ~conn[active_connections[c]].is_active =>
            LET r == SpmCall(G, c, nextMsg)
            IN /\ ~r.parked
               /\ r.g.tx = <<>>
               /\ r.g.wire = wire
               /\ c \notin DOMAIN r.g.active_connections
               /\ \A t \in DOMAIN r.g.subscriptions : c \notin r.g.subscriptions[t]
               /\ r.g.message_queue = message_queue

\* C16: an inactive Connection has left active_connections while every endpoint is still
\* running and no send was counted as failed, which only the inactive branch of
\* send_personal_message does
C16_Witness ==
    /\ stats.failed_sends = 0
    /\ app.pc = "idle"
    /\ \A k \in Channels : ep[k].pc # "done"
    /\ \E h \in DOMAIN conn :
          /\ ~conn[h].is_active
          /\ ep[h].cid \notin DOMAIN active_connections

\* C17: send_personal_message to a client without an entry in active_connections appends
\* the message to the end of message_queue[client_id], creating the entry if there is
\* none, transmits nothing, does not suspend, and leaves active_connections,
\* subscriptions, the other queues and every counter of stats as they are.
C17_OfflineAppends ==
    \A c \in Clients \ DOMAIN active_connections :
        LET r == SpmCall(G, c, nextMsg)
            before == IF c \in DOMAIN message_queue THEN message_queue[c] ELSE <<>>
        IN /\ ~r.parked
           /\ r.g.tx = <<>>
           /\ r.g.wire = wire
           /\ DOMAIN r.g.message_queue = (DOMAIN message_queue) \cup {c}
           /\ r.g.message_queue[c] = Append(before, nextMsg)
           /\ \A o \in (DOMAIN message_queue) \ {c} : r.g.message_queue[o] = message_queue[o]
           /\ r.g.active_connections = active_connections
           /\ r.g.conn = conn
           /\ r.g.subscriptions = subscriptions
           /\ r.g.stats = stats

\* C17: two messages were sent to a client that never connected and are queued in the
\* order of the calls
C17_Witness ==
    \E c \in Clients \ DOMAIN active_connections :
        /\ c \in DOMAIN message_queue
        /\ message_queue[c] = <<1, 2>>
        /\ \A h \in Channels : ep[h].cid # c

\* C18: connect does not leave by an exception when the transport fails: a
\* websocket_endpoint that enters connect goes on to the sleep after accept whatever the
\* state of the peer, and a send of connect that fails leaves is_active false on the
\* Connection while connect goes on.
C18_NoTransportException ==
    [][\A h \in Channels :
          /\ (ep[h].pc = "idle" /\ ep'[h].pc # "idle") => ep'[h].pc = "accepted"
          /\ (ep'[h] # ep[h] /\ ep'[h].pc \in {"welcomed", "flushing"} /\ ~ep'[h].ok)
                => ~conn'[h].is_active]_vars

\* C19: a Connection is created with is_active true, and a Connection whose is_active is
\* false stays a Connection with is_active false in every later state.
C19_InactiveStaysInactive ==
    [][\A h \in Channels :
          /\ (h \notin DOMAIN conn /\ h \in DOMAIN conn') => conn'[h].is_active
          /\ (h \in DOMAIN conn /\ ~conn[h].is_active)
                => (h \in DOMAIN conn' /\ ~conn'[h].is_active)]_vars

\* C19: the health check is pinging while a Connection that a failed send made inactive
\* is still registered
C19_Witness ==
    /\ health.pc = "pinging"
    /\ \E c \in DOMAIN active_connections :
          /\ ~conn[active_connections[c]].is_active
          /\ <<c, active_connections[c]>> \notin health.snap

Registered(h) == \E c \in DOMAIN active_connections : active_connections[c] = h

\* C21: with the health-check loop running, a registered Connection whose peer has gone
\* is eventually no longer registered, whether or not anything calls disconnect; and the
\* clean-up of a health-check pass removes exactly the clients whose ping failed that
\* still have an entry, lowers stats.active_connections by their number and leaves them
\* in no subscriber set.
C21_HealthCheckReclaims ==
    /\ \A h \in Channels :
          (bgtasks.health_check_task /\ peer_gone[h] /\ Registered(h)) ~> ~Registered(h)
    /\ [][(health.pc = "pinging" /\ health'.pc = "sleep") =>
             LET gone == health.failed \cap DOMAIN active_connections
             IN /\ DOMAIN active_connections' = (DOMAIN active_connections) \ gone
                /\ stats'.active_connections = stats.active_connections - Cardinality(gone)
                /\ get_stats(GP).active_connections = Cardinality(DOMAIN active_connections')
                /\ \A c \in gone, t \in DOMAIN subscriptions' : c \notin subscriptions'[t]]_vars

\* C21: a subscribed client whose peer has gone was removed while its endpoint was still
\* waiting in receive_text, which only the health check does
C21_Witness ==
    \E h \in DOMAIN conn :
        /\ peer_gone[h]
        /\ ep[h].pc = "loop"
        /\ ~Registered(h)
        /\ \A k \in Channels : ep[k].pc # "done"
        /\ budget.calls = 1
        /\ subscriptions = EmptyDict
        /\ stats.active_connections = 0

\* C22: an error inside a pass ends neither loop: from the sleep of its `except` each
\* loop goes on to another pass, and the tasks started stay started.
C22_LoopsSurviveErrors ==
    /\ (health.pc = "except") ~> (health.pc # "except")
    /\ (bgtasks.cleanup_at = "except") ~> (bgtasks.cleanup_at = "sleep")
    /\ [][/\ bgtasks.health_check_task => bgtasks'.health_check_task
          /\ bgtasks.cleanup_task => bgtasks'.cleanup_task
          /\ health.pc = "except" => health'.pc \in {"except", "sleep", "pinging"}]_vars

\* C22: a health-check pass is pinging after a pass that ended in an error, and the
\* clean-up loop is back in its sleep after a pass that ended in an error
C22_Witness ==
    /\ budget.faults >= 1
    /\ health.pc = "pinging"
    /\ budget.cleanups >= 1
    /\ bgtasks.cleanup_at = "sleep"

\* C23: once start_background_tasks has been called there is exactly one health-check
\* loop and exactly one clean-up loop, and no later step, a second call included, creates
\* another.
C23_StartIdempotent ==
    [][/\ bgtasks'.health_check_task <=> bgtasks'.cleanup_task
       /\ bgtasks'.health_loops = IF bgtasks'.health_check_task THEN 1 ELSE 0
       /\ bgtasks'.cleanup_loops = IF bgtasks'.cleanup_task THEN 1 ELSE 0
       /\ bgtasks.health_check_task =>
             /\ bgtasks'.health_check_task /\ bgtasks'.cleanup_task
             /\ bgtasks'.health_loops = bgtasks.health_loops
             /\ bgtasks'.cleanup_loops = bgtasks.cleanup_loops]_vars

\* C23: the one clean-up loop has run its passes, with start_background_tasks free to be
\* called again before each of them
C23_Witness ==
    /\ bgtasks.health_loops = 1
    /\ bgtasks.cleanup_loops = 1
    /\ budget.cleanups = MaxCleanups

C25_BroadcastNoSubscribers ==
    \A t \in Topics :
        t \notin DOMAIN subscriptions =>
            broadcast_to_topic(G, t, [id |-> nextMsg]) = {[g |-> G, f |-> AppIdle]}

\* C25: a broadcast was made while a client was connected and nobody had subscribed, and
\* the client received nothing but its welcome message
C25_Witness ==
    /\ nextMsg = 2
    /\ budget.calls = 0
    /\ budget.inbound = 0
    /\ subscriptions = EmptyDict
    /\ stats.messages_sent = 0
    /\ \E c \in DOMAIN active_connections :
          /\ ep[active_connections[c]].pc = "loop"
          /\ wire[active_connections[c]] = <<(<<"connection_established", None>>)>>

\* C26: subscribe(c, t) leaves c in subscriptions[t], creating the topic if it has no
\* entry, and changes no other subscriber set; it transmits one subscription_confirmed
\* to the client's Connection exactly when the client has one on which the send
\* succeeds; when the send fails the subscription stays, and in no case does subscribe
\* remove a Connection or change a counter.
C26_SubscribeNoRollback ==
    \A c \in Clients, t \in Topics :
        LET r == SubscribeCall(G, c, t)
            before == IF t \in DOMAIN subscriptions THEN subscriptions[t] ELSE {}
            confirmed == c \in DOMAIN active_connections
                         /\ SendSucceeds(G, active_connections[c])
        IN /\ DOMAIN r.g.subscriptions = (DOMAIN subscriptions) \cup {t}
           /\ r.g.subscriptions[t] = before \cup {c}
           /\ \A x \in (DOMAIN subscriptions) \ {t} : r.g.subscriptions[x] = subscriptions[x]
           /\ r.g.tx = IF confirmed
                       THEN <<(<<active_connections[c], "subscription_confirmed", t>>)>>
                       ELSE <<>>
           /\ r.g.active_connections = active_connections
           /\ r.g.stats = stats
           /\ r.g.message_queue = message_queue

\* C26: a client still waiting for its welcome message is subscribed although its
\* Connection is inactive, which only a failed confirmation makes it at that point
C26_Witness ==
    \E c \in DOMAIN active_connections :
        /\ ep[active_connections[c]].pc = "registered"
        /\ ~conn[active_connections[c]].is_active
        /\ \E t \in DOMAIN subscriptions : c \in subscriptions[t]

\* C27: unsubscribe(c, t) changes nothing at all when t has no entry in subscriptions or
\* c is not in subscriptions[t], and in every case transmits nothing and changes nothing
\* but subscriptions.
C27_UnsubscribeNoOp ==
    \A c \in Clients, t \in Topics :
        LET u == unsubscribe(G, c, t)
        IN /\ (t \notin DOMAIN subscriptions \/ c \notin subscriptions[t]) => u = G
           /\ u.tx = <<>>
           /\ u.wire = wire
           /\ [u EXCEPT !.subscriptions = subscriptions] = G

\* C27: all the calls were made and a topic is left with one subscriber, the other
\* client not being in it
C27_Witness ==
    /\ budget.calls = MaxCalls
    /\ \E t \in DOMAIN subscriptions, c \in Clients :
          c \notin subscriptions[t] /\ subscriptions[t] # {}
    /\ \E t \in Topics : t \notin DOMAIN subscriptions

\* The message a feed builds for its topic and broadcast_to_topic stamps
Envelope(t, data) ==
    [type |-> CASE t = market_data -> "market_update"
                [] t = news -> "news_update"
                [] t = signals -> "ai_signal",
     data |-> data,
     source |-> CASE t = market_data -> "real_time_feed"
                  [] t = news -> "news_feed"
                  [] t = signals -> "ai_agents",
     timestamp |-> utcnow]

\* C28: a call of broadcast_market_update, broadcast_news_update or broadcast_ai_signal
\* takes as its targets the subscribers of "market_data", "news" or "signals" at the
\* call and carries the message of its feed: its type, the data given, its source and a
\* timestamp. Each time the call suspends it has made one send to one of the targets left,
\* which transmits that message once to the target's Connection when the send succeeds
\* and nothing otherwise, and the target is not among the targets left; a step in which
\* the call returns transmits nothing. A call made while the only subscriber of
\* "market_data" has an active Connection on a connected websocket whose peer is there
\* transmits the market message to that Connection and has no target left.
C28_FeedDelivery ==
    [][/\ (app.pc = "idle" /\ nextMsg' # nextMsg) =>
             /\ app'.pc = "idle" => lastTx' = <<>>
             /\ app'.pc = "broadcasting" =>
                   /\ app'.topic \in FeedTopics \cap DOMAIN subscriptions
                   /\ app'.msg = Envelope(app'.topic, nextMsg)
                   /\ {x[1] : x \in app'.snap} \cup app'.failed \cup {app'.cid}
                         \subseteq subscriptions[app'.topic]
             /\ \A c \in Clients :
                   (/\ market_data \in DOMAIN subscriptions
                    /\ subscriptions[market_data] = {c}
                    /\ c \in DOMAIN active_connections
                    /\ SendSucceeds(G, active_connections[c])) =>
                   broadcast_market_update(G, nextMsg) =
                       {[g |-> [G EXCEPT !.wire[active_connections[c]] =
                                             Append(@, <<"broadcast", Envelope(market_data, nextMsg)>>),
                                         !.tx = <<(<<active_connections[c], "broadcast",
                                                     Envelope(market_data, nextMsg)>>)>>],
                         f |-> [AppIdle EXCEPT !.pc = "broadcasting", !.cid = c, !.ok = TRUE,
                                               !.mode = "topic", !.topic = market_data,
                                               !.msg = Envelope(market_data, nextMsg)]]}
       /\ (app.pc = "broadcasting" /\ app' # app) =>
             /\ app'.pc = "idle" => lastTx' = <<>>
             /\ app'.pc = "broadcasting" =>
                   /\ app'.msg = app.msg /\ app'.topic = app.topic
                   /\ app'.snap \subseteq app.snap
                   /\ <<app'.cid, None>> \in app.snap
       /\ (app'.pc = "broadcasting" /\ app' # app) =>
             /\ <<app'.cid, None>> \notin app'.snap
             /\ app'.cid \in DOMAIN active_connections
             /\ lastTx' = IF app'.ok
                           THEN <<(<<active_connections[app'.cid], "broadcast", app'.msg>>)>>
                           ELSE <<>>]_vars

\* C28: a market update and a news update have been broadcast; one channel got the market
\* update and nothing else after its welcome, the other the news update and nothing else
C28_Witness ==
    /\ app.pc = "idle"
    /\ \E h, k \in Channels :
          /\ wire[h] = <<(<<"connection_established", None>>),
                         (<<"broadcast", Envelope(market_data, 1)>>)>>
          /\ wire[k] = <<(<<"connection_established", None>>),
                         (<<"broadcast", Envelope(news, 2)>>)>>

\* The client ids of the targets a broadcast has left
Left(f) == {x[1] : x \in f.snap}

\* The client ids a broadcast that resumes has to disconnect if it now returns: those it
\* collected, the target of the send it resumes from when that failed, and the targets left
Collected(f) == f.failed \cup (IF f.ok THEN {} ELSE {f.cid}) \cup Left(f)

\* C29: the targets of a broadcast_to_all are the Connections of all the clients in
\* active_connections at the call, subscribed or not. Each time the call suspends it has
\* made one send on the Connection the snapshot holds for one of the targets left, which
\* transmits the stamped message once when the send succeeds; a target is sent to, kept
\* for later or collected, never two of these, and only targets whose send failed or was
\* not attempted are collected. When the call returns it has removed from
\* active_connections the clients it collected and no others, and transmits nothing.
C29_BroadcastAll ==
    [][/\ (app.pc = "idle" /\ nextMsg' # nextMsg) =>
             /\ app'.pc = "broadcasting" =>
                   /\ app'.mode = "all"
                   /\ app'.msg = Stamp([id |-> nextMsg])
                   /\ app'.snap \subseteq {<<c, active_connections[c]>> : c \in DOMAIN active_connections}
                   /\ Left(app') \cup {app'.cid} \cup app'.failed = DOMAIN active_connections
                   /\ active_connections' = active_connections
                   /\ \E h \in Channels : <<app'.cid, h>> \in
                          {<<c, active_connections[c]>> : c \in DOMAIN active_connections}
                          /\ lastTx' = IF app'.ok THEN <<(<<h, "broadcast", app'.msg>>)>> ELSE <<>>
             /\ app'.pc = "idle" =>
                   /\ active_connections' = EmptyDict
                   /\ \A c \in DOMAIN active_connections : ~TransportReached(G, active_connections[c])
                   /\ lastTx' = <<>>
       /\ (app.pc = "broadcasting" /\ app' # app) =>
             /\ app'.pc = "broadcasting" =>
                   /\ app'.msg = app.msg
                   /\ app'.snap \subseteq app.snap
                   /\ app'.failed \subseteq Collected(app) \ Left(app')
                   /\ app.failed \cup (IF app.ok THEN {} ELSE {app.cid}) \subseteq app'.failed
                   /\ active_connections' = active_connections
                   /\ \E h \in Channels :
                          /\ <<app'.cid, h>> \in app.snap \ app'.snap
                          /\ lastTx' = IF app'.ok THEN <<(<<h, "broadcast", app'.msg>>)>> ELSE <<>>
             /\ app'.pc = "idle" =>
                   /\ DOMAIN active_connections' = (DOMAIN active_connections) \ Collected(app)
                   /\ \A c \in DOMAIN active_connections' : active_connections'[c] = active_connections[c]
                   /\ \A x \in app.snap : ~TransportReached(G, x[2])
                   /\ lastTx' = <<>>
       /\ app'.pc = "broadcasting" =>
             /\ app'.cid \notin Left(app') \cup app'.failed
             /\ Left(app') \cap app'.failed = {}
             /\ \A x, y \in app'.snap : x[1] = y[1] => x = y]_vars

\* C29: a broadcast to all has returned; a client in no subscriber set, still connected,
\* got the message once after its welcome, and the client whose send failed has no
\* Connection, while a topic has a subscriber
C29_Witness ==
    /\ app.pc = "idle"
    /\ stats.failed_sends = 1
    /\ DOMAIN subscriptions # {}
    /\ \E c \in DOMAIN active_connections :
          /\ \A t \in DOMAIN subscriptions : c \notin subscriptions[t]
          /\ wire[active_connections[c]] = <<(<<"connection_established", None>>),
                                             (<<"broadcast", Stamp([id |-> 1])>>)>>
    /\ \E c \in Clients : c \notin DOMAIN active_connections

\* C30: no step lowers total_connections, messages_sent or failed_sends; the step in which
\* a connect registers its Connection raises total_connections by exactly one, whether or
\* not the client_id had an entry, and no other step changes it.
C30_CountersMonotone ==
    [][/\ stats'.total_connections >= stats.total_connections
       /\ stats'.messages_sent >= stats.messages_sent
       /\ stats'.failed_sends >= stats.failed_sends
       /\ \A h \in Channels :
             (ep[h].pc = "accepted" /\ ep'[h].pc = "registered") =>
                 stats'.total_connections = stats.total_connections + 1
       /\ (\A h \in Channels : ~(ep[h].pc = "accepted" /\ ep'[h].pc = "registered")) =>
             stats'.total_connections = stats.total_connections]_vars

\* C30: two connections were registered, one of them is gone again, and a send has
\* succeeded and a send has failed
C30_Witness ==
    /\ stats.total_connections = 2
    /\ stats.active_connections < 2
    /\ stats.messages_sent >= 1
    /\ stats.failed_sends >= 1

\* C31: a broadcast_to_topic that suspends, at its call or when it resumes, has changed
\* neither active_connections nor subscriptions in that step; the step in which it
\* returns, having had the turn of every target of its snapshot, changes them by the
\* disconnects of the clients it collected and by nothing else.
C31_CleanupAfterFanOut ==
    [][/\ (app'.pc = "broadcasting" /\ app'.mode = "topic" /\ app' # app) =>
             /\ active_connections' = active_connections
             /\ subscriptions' = subscriptions
       /\ (app.pc = "broadcasting" /\ app.mode = "topic" /\ app'.pc = "idle") =>
             LET d == DisconnectAll(G, Collected(app))
             IN /\ active_connections' = d.active_connections
                /\ subscriptions' = d.subscriptions
                /\ \A x \in app.snap : Resolve(G, x) = None \/ ~TransportReached(G, Resolve(G, x))
       /\ (app.pc = "idle" /\ app'.pc = "idle" /\ nextMsg' # nextMsg
              /\ ep' = ep /\ budget' = budget) =>
             \E t \in Topics :
                LET d == DisconnectAll(G, IF t \in DOMAIN subscriptions THEN subscriptions[t] ELSE {})
                IN /\ active_connections' = d.active_connections
                   /\ subscriptions' = d.subscriptions]_vars

\* C31: a broadcast_to_topic is suspended in a send after the send to another target has
\* failed, and the client of the failed send still has its Connection and is still a
\* subscriber of the topic
C31_Witness ==
    /\ app.pc = "broadcasting"
    /\ app.mode = "topic"
    /\ app.failed # {}
    /\ \A c \in app.failed :
          /\ c \in DOMAIN active_connections
          /\ ~conn[active_connections[c]].is_active
          /\ app.topic \in DOMAIN subscriptions /\ c \in subscriptions[app.topic]

\* The topics client c is a subscriber of
TopicsOf(subs, c) == {t \in DOMAIN subs : c \in subs[t]}

\* C32: between two suspension points, where nothing unsubscribes, a client whose entry
\* in active_connections is removed is left in no subscriber set, and a client that
\* leaves a subscriber set had an entry, has none afterwards and is left in no subscriber
\* set.
C32_DisconnectAtomic ==
    [][\A c \in Clients :
          /\ (c \in DOMAIN active_connections /\ c \notin DOMAIN active_connections') =>
                TopicsOf(subscriptions', c) = {}
          /\ (TopicsOf(subscriptions, c) \ TopicsOf(subscriptions', c) # {}) =>
                /\ c \in DOMAIN active_connections
                /\ c \notin DOMAIN active_connections'
                /\ TopicsOf(subscriptions', c) = {}]_vars

\* C32: the one client the application subscribed has connected and has been
\* disconnected: an endpoint is over and no topic is left
C32_Witness ==
    /\ budget.calls = 1
    /\ budget.inbound = 0
    /\ subscriptions = EmptyDict
    /\ active_connections = EmptyDict
    /\ \E h \in Channels : ep[h].pc = "done" /\ wire[h] # <<>>

\* C33: the step in which a broadcast_to_topic returns removes no entry of
\* active_connections whose Connection is active on a connected websocket with its peer
\* there, and takes the client of such an entry out of no subscriber set.
C33_CleanupSparesHealthy ==
    [][(app.pc = "broadcasting" /\ app.mode = "topic" /\ app'.pc = "idle") =>
          \A c \in DOMAIN active_connections :
              SendSucceeds(G, active_connections[c]) =>
                  /\ c \in DOMAIN active_connections'
                  /\ active_connections'[c] = active_connections[c]
                  /\ TopicsOf(subscriptions', c) = TopicsOf(subscriptions, c)]_vars

\* C34: a message that is in message_queue[c] before a step and not after it has been
\* transmitted on a channel as a queued message.
C34_QueuedLeaveWhenSent ==
    [][\A c \in DOMAIN message_queue : \A i \in 1..Len(message_queue[c]) :
          (c \notin DOMAIN message_queue'
           \/ \A j \in 1..Len(message_queue'[c]) : message_queue'[c][j] # message_queue[c][i]) =>
              \E h \in Channels : \E j \in 1..Len(wire'[h]) :
                  wire'[h][j] = <<"queued", message_queue[c][i]>>]_vars

\* C35: no step of a connect past its registration ends the endpoint, which only the
\* KeyError of `del self.message_queue[client_id]` does, and every message has been
\* transmitted as a queued message at most once over all channels.
C35_FlushOnceDeleteOnce ==
    [][/\ \A h \in Channels :
             ep[h].pc \in {"registered", "welcomed", "flushing"} => ep'[h].pc # "done"
       /\ \A m \in 1..MaxMsgs :
             Cardinality({x \in UNION {{<<h, j>> : j \in 1..Len(wire'[h])} : h \in Channels} :
                             wire'[x[1]][x[2]] = <<"queued", m>>}) <= 1]_vars

\* C36: in every reachable state every topic get_stats lists has an entry in
\* subscriptions with at least one subscriber, and get_stats reports at least 1 for it.
C36_NoEmptyTopic ==
    LET st == get_stats(G)
    IN /\ st.topics = DOMAIN subscriptions
       /\ \A t \in st.topics :
             /\ subscriptions[t] # {}
             /\ st.topic_subscribers[t] >= 1
             /\ st.topic_subscribers[t] = Cardinality(subscriptions[t])

\* C36: after all its calls the application has left one topic, with one subscriber,
\* while an endpoint that had connected is over and no client has a Connection
C36_Witness ==
    /\ budget.calls = MaxCalls
    /\ active_connections = EmptyDict
    /\ \E h \in Channels : ep[h].pc = "done" /\ wire[h] # <<>>
    /\ Cardinality(get_stats(G).topics) = 1
    /\ \A t \in get_stats(G).topics : get_stats(G).topic_subscribers[t] = 1

\* C37: the step in which a websocket_endpoint terminates leaves its client_id without
\* an entry in active_connections and in no subscriber set.
C37_EndpointExitCleans ==
    [][\A h \in Channels :
          (ep[h].pc # "done" /\ ep'[h].pc = "done") =>
              /\ ep'[h].cid \notin DOMAIN active_connections'
              /\ TopicsOf(subscriptions', ep'[h].cid) = {}]_vars

\* C38: the registration of a connect for a client_id that has an entry in
\* active_connections puts the new Connection in its place and changes no other entry,
\* raises total_connections by one, leaves the active_connections counter and
\* subscriptions as they are; a broadcast_to_topic made right after it to a topic the
\* client_id is subscribed to keeps the client as a target until it sends to it, sends on
\* the new Connection and never on the replaced one, can send to it first, and the send
\* transmits the message unless the peer of the new websocket has vanished.
C38_ReplacedKeepsTopics ==
    \A h \in Channels :
        (ep[h].pc = "accepted" /\ ep[h].cid \in DOMAIN active_connections) =>
            LET c == ep[h].cid
                old == active_connections[c]
                r == Register(G, h, c)
            IN /\ r.active_connections = [active_connections EXCEPT ![c] = h]
               /\ r.conn[h] = ConnectionManager(c)
               /\ r.stats.total_connections = stats.total_connections + 1
               /\ r.stats.active_connections = stats.active_connections
               /\ r.subscriptions = subscriptions
               /\ \A t \in TopicsOf(subscriptions, c) :
                     LET runs == broadcast_to_topic(r, t, [id |-> nextMsg])
                         sent == IF peer_gone[h] THEN <<>>
                                 ELSE <<(<<h, "broadcast", Stamp([id |-> nextMsg])>>)>>
                     IN /\ \A b \in runs :
                              /\ b.f.pc = "broadcasting"
                              /\ (b.f.cid = c /\ b.g.tx = sent) \/ <<c, None>> \in b.f.snap
                              /\ old # h => \A i \in 1..Len(b.g.tx) : b.g.tx[i][1] # old
                        /\ \E b \in runs : b.f.cid = c /\ b.g.tx = sent

\* C38: both channels were registered for one client_id, which has one entry, and the
\* Connection that replaced the other has got a broadcast that the replaced one has not
C38_Witness ==
    /\ stats.total_connections = 2
    /\ stats.active_connections = 1
    /\ DOMAIN conn = Channels
    /\ \E c \in DOMAIN active_connections : \E h \in Channels :
          /\ active_connections[c] = h
          /\ \A k \in Channels : conn[k].client_id = c
          /\ \E j \in 1..Len(wire[h]) : wire[h][j][1] = "broadcast"
          /\ \A k \in Channels \ {h} : \A j \in 1..Len(wire[k]) : wire[k][j][1] # "broadcast"

\* The sends among the targets S that fail without suspending: the Connection is active
\* and its websocket is not CONNECTED
FailNow(S) ==
    Cardinality({x \in S : /\ Resolve(G, x) # None
                           /\ conn[Resolve(G, x)].is_active
                           /\ client_state[Resolve(G, x)] # "CONNECTED"})

\* What a step adds to messages_sent and to failed_sends
Counted(sent, failed) ==
    /\ stats'.messages_sent = stats.messages_sent + sent
    /\ stats'.failed_sends = stats.failed_sends + failed

\* The targets a broadcast step has dealt with, but for the one it is suspended on
Passed(snap) == IF app'.pc = "broadcasting" THEN (snap \ app'.snap) \ Parking(G, snap) ELSE snap

\* C39: a send_personal_message or a broadcast that resumes from a send adds one to
\* messages_sent when the send succeeded and one to failed_sends when it failed; a send
\* of theirs that fails without suspending adds one to failed_sends in the step that
\* makes it; nothing else changes the two counters: not a target without a Connection or
\* with an inactive one, not a step in which the application neither sends nor
\* broadcasts, as those of connect with its welcome and queued messages are, not subscribe
\* with its confirmation, and not a ping.
C39_CountersCountSends ==
    [][/\ AppSent => Counted(IF app.ok THEN 1 ELSE 0, IF app.ok THEN 0 ELSE 1)
       /\ \A c \in Clients :
             (nextMsg' # nextMsg /\ AppSend(c)) => Counted(0, FailNow({<<c, None>>}))
       /\ (app' # app /\ AppBroadcastNext) =>
             Counted(IF app.ok THEN 1 ELSE 0, (IF app.ok THEN 0 ELSE 1) + FailNow(Passed(app.snap)))
       /\ (nextMsg' # nextMsg /\ AppBroadcastAll) =>
             Counted(0, FailNow(Passed({<<c, active_connections[c]>> : c \in DOMAIN active_connections})))
       /\ \A t \in Topics :
             (nextMsg' # nextMsg /\ AppBroadcastTopic(t)) =>
                 Counted(0, IF t \in DOMAIN subscriptions
                            THEN FailNow(Passed({<<c, None>> : c \in subscriptions[t]}))
                            ELSE 0)
       /\ (app' = app /\ nextMsg' = nextMsg) => Counted(0, 0)
       /\ (app.pc = "subscribing" \/ app'.pc = "subscribing") => Counted(0, 0)
       /\ \A h \in DOMAIN conn : ConnPing(G, h).stats = stats]_vars

\* C39: one send was counted as sent and one as failed, while the channels carry a
\* welcome message and a queued message besides, and a client is subscribed
C39_Witness ==
    /\ app.pc = "idle"
    /\ stats.messages_sent = 1
    /\ stats.failed_sends = 1
    /\ subscriptions # EmptyDict
    /\ \E h \in Channels : \E j \in 1..Len(wire[h]) : wire[h][j][1] = "connection_established"
    /\ \E h \in Channels : \E j \in 1..Len(wire[h]) : wire[h][j][1] = "queued"
====
